---- MODULE Spec2Model ----
(***************************************************************************)
(* Model of the reply pipeline of backend/main.py (build_reply and the     *)
(* helpers it calls) together with backend/services/retrieval.py and       *)
(* backend/services/llm.py.                                                *)
(*                                                                         *)
(* A Python str is a sequence of one-character strings, so that lower(),   *)
(* strip(), split(), join() and the "in" substring test are computed and   *)
(* not assumed.  A code point outside ASCII is written "U+XXXX" and is one *)
(* element of the sequence.  None is the empty tuple and a present         *)
(* Optional value x is the one-element tuple <<x>>.                        *)
(***************************************************************************)
EXTENDS Integers, Sequences, FiniteSets, TLC

VARIABLES cfg, req

vars == <<cfg, req>>

\* ------------------------------------------------------------------ str

SetMin(S) == CHOOSE x \in S : \A y \in S : x <= y

SetMax(S) == CHOOSE x \in S : \A y \in S : y <= x

\* s[i:].startswith(sub)
StartsAt(s, sub, i) ==
    /\ i + Len(sub) - 1 <= Len(s)
    /\ \A j \in 1..Len(sub) : s[i + j - 1] = sub[j]

\* sub in s
str_in(sub, s) == \E i \in 1..(Len(s) - Len(sub) + 1) : StartsAt(s, sub, i)

\* s.find(sub) + 1: the 1-based index of the first occurrence, 0 when there is none
str_find(s, sub) ==
    IF str_in(sub, s)
    THEN SetMin({i \in 1..(Len(s) - Len(sub) + 1) : StartsAt(s, sub, i)})
    ELSE 0

UPPERCASE == <<"A","B","C","D","E","F","G","H","I","J","K","L","M","N","O","P","Q","R","S","T","U","V","W",
        "X","Y","Z">>

LOWERCASE == <<"a","b","c","d","e","f","g","h","i","j","k","l","m","n","o","p","q","r","s","t","u","v","w",
        "x","y","z">>

chr_lower(c) ==
    IF \E i \in 1..Len(UPPERCASE) : UPPERCASE[i] = c
    THEN LOWERCASE[CHOOSE i \in 1..Len(UPPERCASE) : UPPERCASE[i] = c]
    ELSE c

\* s.lower()
str_lower(s) == [i \in 1..Len(s) |-> chr_lower(s[i])]

\* the characters str.strip() removes when called without an argument
WHITESPACE == {" ", "\n", "\t", "\r"}

\* s.strip(chars): every leading and trailing character that is in chars goes
str_strip_chars(s, chars) ==
    IF \A i \in 1..Len(s) : s[i] \in chars THEN <<>>
    ELSE SubSeq(s, SetMin({i \in 1..Len(s) : s[i] \notin chars}),
                   SetMax({i \in 1..Len(s) : s[i] \notin chars}))

\* s.strip()
str_strip(s) == str_strip_chars(s, WHITESPACE)

RECURSIVE str_split(_, _)
\* s.split(sep), sep non-empty: the text before the first sep, then the split of the rest
str_split(s, sep) ==
    IF str_find(s, sep) = 0 THEN <<s>>
    ELSE <<SubSeq(s, 1, str_find(s, sep) - 1)>>
         \o str_split(SubSeq(s, str_find(s, sep) + Len(sep), Len(s)), sep)

RECURSIVE str_join(_, _)
\* sep.join(parts)
str_join(sep, parts) ==
    IF parts = <<>> THEN <<>>
    ELSE IF Len(parts) = 1 THEN parts[1]
    ELSE parts[1] \o sep \o str_join(sep, Tail(parts))

\* ------------------------------------------------------------------ constants of main.py

EMERGENCY_KEYWORDS ==
    << <<"c","h","e","s","t"," ","p","a","i","n">>,
       <<"d","i","f","f","i","c","u","l","t","y"," ","b","r","e","a","t","h","i","n","g">>,
       <<"t","r","o","u","b","l","e"," ","b","r","e","a","t","h","i","n","g">>,
       <<"s","h","o","r","t","n","e","s","s"," ","o","f"," ","b","r","e","a","t","h">>,
       <<"s","u","i","c","i","d","a","l">>,
       <<"s","u","i","c","i","d","e">>,
       <<"f","a","i","n","t","i","n","g">>,
       <<"s","e","v","e","r","e"," ","b","l","e","e","d","i","n","g">> >>

SYSTEM_PROMPT ==
    <<"Y","o","u"," ","a","r","e"," ","a","n"," ","A","I"," ","h","e","a","l","t","h","c","a","r","e"," ",
        "a","s","s","i","s","t","a","n","t","."," ","A","n","s","w","e","r"," ","t","h","e"," ","u","s","e",
        "r","'","s"," ","q","u","e","s","t","i","o","n"," ","f","u","l","l","y"," ","a","n","d"," ","c","l",
        "e","a","r","l","y",","," ">>
    \o <<"p","r","o","v","i","d","i","n","g"," ","s","t","e","p","-","b","y","-","s","t","e","p",","," ",
        "w","e","l","l","-","s","t","r","u","c","t","u","r","e","d"," ","e","x","p","l","a","n","a","t","i",
        "o","n","s"," ","w","h","e","n"," ","h","e","l","p","f","u","l","."," ">>
    \o <<"U","s","e"," ","e","v","e","r","y","d","a","y"," ","l","a","n","g","u","a","g","e"," ","a","n",
        "d"," ","a","d","d"," ","p","r","a","c","t","i","c","a","l"," ","t","i","p","s","."," ","A","v","o",
        "i","d"," ","a","d","d","i","n","g"," ","d","i","s","c","l","a","i","m","e","r","s"," ","u","n","l",
        "e","s","s"," ","a","s","k","e","d",".">>

\* "Sorry, I could not generate a response." (main.py:219)
FALLBACK_APOLOGY == <<"S","o","r","r","y",","," ","I"," ","c","o","u","l","d"," ","n","o","t"," ","g","e",
        "n","e","r","a","t","e"," ","a"," ","r","e","s","p","o","n","s","e",".">>

\* "Sorry, I could not generate a response at this moment. Please try again." (main.py:223)
DEFAULT_APOLOGY == <<"S","o","r","r","y",","," ","I"," ","c","o","u","l","d"," ","n","o","t"," ","g","e",
        "n","e","r","a","t","e"," ","a"," ","r","e","s","p","o","n","s","e"," ","a","t"," ","t","h","i","s",
        " ","m","o","m","e","n","t","."," ","P","l","e","a","s","e"," ","t","r","y"," ","a","g","a","i","n",
        ".">>

\* the notice of main.py:228, after its two leading newlines
EMERGENCY_NOTICE ==
    <<"U+26A0","U+FE0F"," ","*","*","E","m","e","r","g","e","n","c","y"," ","N","o","t","i","c","e",":","*",
        "*"," ","I","f"," ","s","y","m","p","t","o","m","s"," ","a","r","e"," ","s","e","v","e","r","e"," ",
        "o","r"," ","w","o","r","s","e","n","i","n","g",","," ","p","l","e","a","s","e"," ","s","e","e","k",
        " ","i","m","m","e","d","i","a","t","e"," ","m","e","d","i","c","a","l"," ","h","e","l","p",".">>

\* the text main.py:228 appends to the reply
EMERGENCY_NOTICE_SUFFIX == <<"\n","\n">> \o EMERGENCY_NOTICE

\* "Here’s what I found:\n\n" (main.py:217)
FOUND_PREFIX == <<"H","e","r","e","U+2019","s"," ","w","h","a","t"," ","I"," ","f","o","u","n","d",":","\n",
        "\n">>

\* k of Retriever().search(query, k=4)
K == 4

\* ------------------------------------------------------------------ services/retrieval.py

PLACEHOLDER_DOCS ==
    << <<"G","e","n","e","r","a","l"," ","h","y","d","r","a","t","i","o","n"," ","a","n","d"," ","r","e",
        "s","t"," ","a","d","v","i","c","e",".">>,
       <<"C","o","n","s","u","l","t"," ","a"," ","h","e","a","l","t","h","c","a","r","e"," ","p","r","o",
        "f","e","s","s","i","o","n","a","l"," ","f","o","r"," ","p","e","r","s","i","s","t","e","n","t"," ",
        "s","y","m","p","t","o","m","s",".">> >>

Take(xs, n) == SubSeq(xs, 1, IF Len(xs) < n THEN Len(xs) ELSE n)

\* Retriever.__init__: faiss is the world the retriever finds.  faiss.kind is
\*   "import_error"  langchain or the embeddings model cannot be loaded
\*   "dir_missing"   dataset/faiss_index does not exist
\*   "load_error"    FAISS.load_local raises
\*   "search_error"  the index loads and similarity_search raises
\*   "ok"            the index loads and similarity_search ranks faiss.docs
Retriever_init(faiss) ==
    IF faiss.kind \in {"import_error", "load_error"}
    THEN [loaded |-> FALSE, index |-> <<>>]
    ELSE IF faiss.kind = "dir_missing"
    THEN [loaded |-> FALSE, index |-> <<>>]
    ELSE [loaded |-> TRUE, index |-> <<faiss>>]

\* Retriever.search; the result is [raised, value]
Retriever_search(self, query, k) ==
    IF self.loaded /\ self.index # <<>> /\ self.index[1].kind # "search_error"
    THEN [raised |-> FALSE, value |-> Take(self.index[1].docs, k)]
    ELSE [raised |-> FALSE, value |-> PLACEHOLDER_DOCS]

\* ------------------------------------------------------------------ services/llm.py

\* LLMClient.__init__ had it assigned self.api_key = api_key, api_key being None
LLMClient_init_keyed ==
    [model_name |-> <<"g","p","t","-","4","o","-","m","i","n","i">>, api_key |-> <<>>]

\* LLMClient.__init__ assigns model_name and nothing else: the instance has no
\* attribute api_key
LLMClient_init ==
    [model_name |-> <<"g","p","t","-","4","o","-","m","i","n","i">>]

DRINK_WATER == <<"P","l","e","a","s","e"," ","d","r","i","n","k"," ","w","a","t","e","r"," ","a","n","d",
        " ","r","e","s","t",".">>

LLM_ERROR_PREFIX == <<"U+26A0","U+FE0F"," ","L","L","M"," ","e","r","r","o","r",":"," ">>

\* LLMClient.generate; the result is [raised, value].  openai is what the OpenAI
\* call would do: [kind |-> "raise", text |-> the error text] or
\* [kind |-> "text", text |-> the message content]
LLMClient_generate(self, prompt, context_blocks, openai) ==
    IF "api_key" \notin DOMAIN self
    THEN [raised |-> TRUE, value |-> <<>>]           \* AttributeError at "if self.api_key"
    ELSE IF self.api_key # <<>>
    THEN IF openai.kind = "raise"
         THEN [raised |-> FALSE, value |-> LLM_ERROR_PREFIX \o openai.text]
         ELSE [raised |-> FALSE,
               value |-> IF str_strip(openai.text) # <<>> THEN str_strip(openai.text)
                         ELSE DRINK_WATER]
    ELSE [raised |-> FALSE, value |-> DRINK_WATER]

\* ------------------------------------------------------------------ main.py utilities

\* contains_emergency_keywords without text.lower()
contains_emergency_keywords_cased(text) ==
    \E n \in 1..Len(EMERGENCY_KEYWORDS) : str_in(EMERGENCY_KEYWORDS[n], text)

\* contains_emergency_keywords
contains_emergency_keywords(text) ==
    LET lowered == str_lower(text)
    IN  \E n \in 1..Len(EMERGENCY_KEYWORDS) : str_in(EMERGENCY_KEYWORDS[n], lowered)

\* the except branches of main.py:128-130 and main.py:158-160: [] or "" when the call raised
or_empty(r) == IF r.raised THEN <<>> ELSE r.value

\* retrieve_context: an exception of Retriever().search becomes []
retrieve_context(query, faiss) ==
    or_empty(Retriever_search(Retriever_init(faiss), query, K))

\* ctx of generate_via_llm (main.py:141)
prompt_ctx(context_blocks, c) ==
    IF context_blocks # <<>> /\ context_blocks[1] # <<>> /\ c.USE_CONTEXT
    THEN str_join(<<"\n","\n">>, context_blocks[1])
    ELSE <<>>

\* final_prompt of generate_via_llm (main.py:142-146)
\* The replacement field of main.py:144 holds the string literals 'Context:\\n' and
\* '\\n\\n': a backslash followed by n, not a newline (before Python 3.12 a backslash
\* in a replacement field is a syntax error and main.py does not load at all).
prompt_with(ctx, prompt) ==
    SYSTEM_PROMPT \o <<"\n","\n">>
    \o (IF ctx # <<>> THEN <<"C","o","n","t","e","x","t",":","\\","n">> \o ctx \o <<"\\","n","\\",
        "n">> ELSE <<>>)
    \o <<"U","s","e","r",":"," ">> \o prompt \o <<"\n","A","s","s","i","s","t","a","n","t",":">>

final_prompt(prompt, context_blocks, c) == prompt_with(prompt_ctx(context_blocks, c), prompt)

\* text of generate_via_llm (main.py:147-148); gemini is what the Gemini call does:
\*   [kind |-> "raise"]             generate_content or resp.text raises
\*   [kind |-> "none"]              resp is falsy or resp.text is None
\*   [kind |-> "text", text |-> t]  resp.text is t
gemini_text(gemini) ==
    IF gemini.kind = "text" THEN str_strip(gemini.text) ELSE <<>>

\* generate_via_llm
\* generate_via_llm
generate_via_llm(prompt, context_blocks, c, gemini, openai) ==
    IF c.genai_available /\ c.FULL_GEMINI /\ gemini.kind # "raise" /\ gemini_text(gemini) # <<>>
    THEN gemini_text(gemini)
    ELSE or_empty(LLMClient_generate(LLMClient_init, prompt,
                                     IF c.USE_CONTEXT THEN context_blocks ELSE <<>>, openai))

RECURSIVE markdown_lines(_)
\* lines of format_as_markdown (main.py:164), from the list text_block.split("\n")
markdown_lines(raw) ==
    IF raw = <<>> THEN <<>>
    ELSE (IF str_strip(raw[1]) # <<>>
          THEN <<str_strip(str_strip_chars(raw[1], {"-", " "}))>>
          ELSE <<>>) \o markdown_lines(Tail(raw))

\* format_as_markdown
\* bullets of format_as_markdown (main.py:165)
markdown_bullets(lines) == str_join(<<"\n">>, [i \in 1..Len(lines) |-> <<"-"," ">> \o lines[i]])

\* the return of format_as_markdown (main.py:166); titled is also main.py:202 and main.py:211
titled(section_title, text) == <<"*","*">> \o section_title \o <<":","*","*","\n">> \o text

markdown_or_raw(section_title, bullets, text_block) ==
    IF bullets # <<>> THEN titled(section_title, bullets) ELSE titled(section_title, text_block)

format_as_markdown(section_title, text_block) ==
    markdown_or_raw(section_title,
                    markdown_bullets(markdown_lines(str_split(text_block, <<"\n">>))),
                    text_block)

\* ------------------------------------------------------------------ build_reply

\* block.split(start)[1].split(end)[0].strip(), for a block that contains start
section_between(block, start, end) ==
    str_strip(str_split(str_split(block, start)[2], end)[1])

\* any(x in lower_msg for x in cues)
any_in(cues, lower_msg) == \E n \in 1..Len(cues) : str_in(cues[n], lower_msg)

\* The if/elif chain of the loop body (main.py:184-203), one entry per branch in
\* the order the branches are tested.  bulleted is FALSE for the branch that
\* builds its answer without format_as_markdown.
RULES ==
    << [cues |-> << <<"s","y","m","p","t","o","m">> >>, start |-> <<"C","o","m","m","o","n"," ","S","y","m",
        "p","t","o","m","s",":">>,
        end |-> <<"G","e","n","e","r","a","l"," ","A","d","v","i","c","e">>, title |-> <<"C","o","m","m",
        "o","n"," ","S","y","m","p","t","o","m","s">>, bulleted |-> TRUE],
       [cues |-> << <<"a","d","v","i","c","e">>, <<"s","e","l","f","-","c","a","r",
        "e">> >>, start |-> <<"G","e","n","e","r","a","l"," ","A","d","v","i","c","e">>,
        end |-> <<"P","r","e","v","e","n","t","i","o","n">>, title |-> <<"G","e","n","e","r","a","l"," ",
        "A","d","v","i","c","e"," ","/"," ","S","e","l","f","-","c","a","r","e">>, bulleted |-> TRUE],
       [cues |-> << <<"p","r","e","v","e","n","t","i","o","n">> >>, start |-> <<"P","r","e","v","e","n","t",
        "i","o","n"," ","T","i","p","s",":">>,
        end |-> <<"W","h","e","n"," ","t","o"," ","S","e","e","k">>, title |-> <<"P","r","e","v","e","n",
        "t","i","o","n"," ","T","i","p","s">>, bulleted |-> TRUE],
       [cues |-> << <<"w","h","e","n"," ","t","o"," ","s","e","e","k">>, <<"m","e","d","i","c","a","l"," ",
        "h","e","l","p">> >>, start |-> <<"W","h","e","n"," ","t","o"," ","S","e","e","k">>,
        end |-> <<"D","i","s","c","l","a","i","m","e","r">>, title |-> <<"W","h","e","n"," ","t","o"," ",
        "S","e","e","k"," ","M","e","d","i","c","a","l"," ","H","e","l","p">>, bulleted |-> TRUE],
       [cues |-> << <<"o","v","e","r","v","i","e","w">> >>, start |-> <<"O","v","e","r","v","i","e","w",":">>,
        end |-> <<"C","o","m","m","o","n"," ","S","y","m","p","t","o","m","s">>, title |-> <<"O","v","e",
        "r","v","i","e","w">>, bulleted |-> FALSE] >>

\* the condition of branch n of the chain
rule_matches(n, lower_msg, block) ==
    any_in(RULES[n].cues, lower_msg) /\ str_in(RULES[n].start, block)

\* the branch of the chain that is taken for block, 0 when none is
branch_taken(lower_msg, block) ==
    IF \E n \in 1..Len(RULES) : rule_matches(n, lower_msg, block)
    THEN SetMin({n \in 1..Len(RULES) : rule_matches(n, lower_msg, block)})
    ELSE 0

\* the answer a branch assigns from the section it extracted
section_answer(rule, section) ==
    IF rule.bulleted THEN format_as_markdown(rule.title, section)
    ELSE titled(rule.title, section)

\* the answer branch n assigns
branch_answer(n, block) ==
    section_answer(RULES[n], section_between(block, RULES[n].start, RULES[n].end))

\* the loop body for one block, n being the branch taken (0: none): [answer, rule, block]
block_result(n, context, i) ==
    IF n # 0 THEN [answer |-> <<branch_answer(n, context[i])>>, rule |-> n, block |-> i]
    ELSE [answer |-> <<>>, rule |-> 0, block |-> 0]

\* the scan had it tried each rule on every block before the next rule
scan_blocks_by_rule(lower_msg, context, i) ==
    IF \E n \in 1..Len(RULES), k \in i..Len(context) : rule_matches(n, lower_msg, context[k])
    THEN block_result(
            SetMin({n \in 1..Len(RULES) :
                      \E k \in i..Len(context) : rule_matches(n, lower_msg, context[k])}),
            context,
            SetMin({k \in i..Len(context) :
                      rule_matches(SetMin({n \in 1..Len(RULES) : \E j \in i..Len(context) :
                                             rule_matches(n, lower_msg, context[j])}),
                                   lower_msg, context[k])}))
    ELSE block_result(0, context, i)

RECURSIVE scan_blocks(_, _, _)
\* for block in context (main.py:183-203), from block i on: the loop breaks at
\* the first block for which a branch is taken.  [answer, rule, block], answer
\* being None when the loop ends without a break
scan_blocks(lower_msg, context, i) ==
    IF i > Len(context) THEN block_result(0, context, i)
    ELSE IF branch_taken(lower_msg, context[i]) # 0
    THEN block_result(branch_taken(lower_msg, context[i]), context, i)
    ELSE scan_blocks(lower_msg, context, i + 1)

GENERIC_CUES == << <<"t","e","l","l"," ","m","e">>, <<"a","b","o","u","t">>, <<"w","h","a","t"," ","i",
        "s">>, <<"d","e","t","a","i","l","s">> >>

\* overview, symptoms, advice of main.py:207-209
composite_section(block, start, end) ==
    IF str_in(start, block) THEN section_between(block, start, end) ELSE <<>>

\* parts of main.py:210-213
parts_of(overview, symptoms, advice) ==
    (IF overview # <<>> THEN <<titled(<<"O","v","e","r","v","i","e","w">>, overview)>> ELSE <<>>)
    \o (IF symptoms # <<>> THEN <<format_as_markdown(<<"C","o","m","m","o","n"," ","S","y","m","p","t","o",
        "m","s">>, symptoms)>>
        ELSE <<>>)
    \o (IF advice # <<>> THEN <<format_as_markdown(<<"G","e","n","e","r","a","l"," ","A","d","v","i","c",
        "e"," ","/"," ","S","e","l","f","-","c","a","r","e">>, advice)>>
        ELSE <<>>)

\* main.py:206-213 for block = context[0]
composite_parts(block) ==
    parts_of(composite_section(block, <<"O","v","e","r","v","i","e","w",":">>, <<"C","o","m","m","o","n",
        " ","S","y","m","p","t","o","m","s">>),
             composite_section(block, <<"C","o","m","m","o","n"," ","S","y","m","p","t","o","m","s",
        ":">>, <<"G","e","n","e","r","a","l"," ","A","d","v","i","c","e">>),
             composite_section(block, <<"G","e","n","e","r","a","l"," ","A","d","v","i","c","e">>, <<"P",
        "r","e","v","e","n","t","i","o","n">>))

\* main.py:214
join_parts(scanned, parts) ==
    IF parts # <<>> THEN [answer |-> <<str_join(<<"\n","\n">>, parts)>>, rule |-> 6, block |-> 1]
    ELSE scanned

\* main.py:205-214 had block been the last block of context
summarise_last(scanned, lower_msg, context) ==
    IF scanned.answer = <<>> /\ any_in(GENERIC_CUES, lower_msg) /\ context # <<>>
    THEN join_parts(scanned, composite_parts(context[Len(context)]))
    ELSE scanned

\* main.py:205-214
summarise(scanned, lower_msg, context) ==
    IF scanned.answer = <<>> /\ any_in(GENERIC_CUES, lower_msg) /\ context # <<>>
    THEN join_parts(scanned, composite_parts(context[1]))
    ELSE scanned

\* main.py:216-217
first_block_verbatim(summed, context) ==
    IF (summed.answer = <<>> \/ summed.answer[1] = <<>>) /\ context # <<>>
    THEN [answer |-> <<FOUND_PREFIX \o context[1]>>, rule |-> 7, block |-> 1]
    ELSE summed

\* main.py:219
answer_or(found, llm_answer) ==
    [answer |-> IF found.answer # <<>> /\ found.answer[1] # <<>> THEN found.answer[1]
                ELSE IF llm_answer # <<>> THEN llm_answer
                ELSE FALLBACK_APOLOGY,
     rule |-> found.rule, block |-> found.block]

\* main.py:183-219 for lower_msg = message.lower()
fallback_for(lower_msg, context, llm_answer) ==
    answer_or(first_block_verbatim(summarise(scan_blocks(lower_msg, context, 1),
                                             lower_msg, context),
                                   context),
              llm_answer)

\* the body of "if (not llm_answer) and FAISS_FALLBACK and context" (main.py:180-219).
\* [answer, rule, block]: rule is the branch of the loop that answered, 6 for the
\* composite summary, 7 for the first block verbatim
extractive_fallback(message, context, llm_answer) ==
    fallback_for(str_lower(message), context, llm_answer)

\* the condition of main.py:179 without "not llm_answer"
fallback_runs_always(llm_answer, context, c) ==
    c.FAISS_FALLBACK /\ context # <<>>

\* the condition of main.py:179
fallback_runs(llm_answer, context, c) ==
    llm_answer = <<>> /\ c.FAISS_FALLBACK /\ context # <<>>

\* llm_answer after main.py:179-219
after_fallback(message, context, llm_answer, c) ==
    IF fallback_runs(llm_answer, context, c)
    THEN extractive_fallback(message, context, llm_answer).answer
    ELSE llm_answer

\* which branch of the fallback answered, for the request's record
trace_of(fb) == [ran |-> TRUE, rule |-> fb.rule, block |-> fb.block]

fallback_trace(message, context, llm_answer, c) ==
    IF fallback_runs(llm_answer, context, c)
    THEN trace_of(extractive_fallback(message, context, llm_answer))
    ELSE [ran |-> FALSE, rule |-> 0, block |-> 0]

\* main.py:222-223 left out
or_default_dropped(llm_answer) == llm_answer

\* main.py:222-223
or_default(llm_answer) ==
    IF llm_answer = <<>> THEN DEFAULT_APOLOGY ELSE llm_answer

\* main.py:226-228 with one newline before the notice
with_notice_one_newline(llm_answer, recommend_emergency, c) ==
    IF recommend_emergency /\ c.SHOW_EMERGENCY_NOTICE
    THEN llm_answer \o <<"\n">> \o EMERGENCY_NOTICE
    ELSE llm_answer

\* main.py:226-228
with_notice(llm_answer, recommend_emergency, c) ==
    IF recommend_emergency /\ c.SHOW_EMERGENCY_NOTICE
    THEN llm_answer \o EMERGENCY_NOTICE_SUFFIX
    ELSE llm_answer

\* main.py:179-230, from the values build_reply holds after generate_via_llm
compose_reply(message, recommend_emergency, context, llm_answer, c) ==
    [reply |-> with_notice(or_default(after_fallback(message, context, llm_answer, c)),
                           recommend_emergency, c),
     emergency_recommended |-> recommend_emergency]

\* context of build_reply (main.py:173)
reply_context(message, c, faiss) ==
    IF c.USE_CONTEXT \/ c.FAISS_FALLBACK THEN retrieve_context(message, faiss) ELSE <<>>

\* the second argument of generate_via_llm at main.py:176
llm_context_arg(context, c) == IF c.USE_CONTEXT THEN <<context>> ELSE <<>>

\* main.py:173-230 once recommend_emergency and context are known
reply_given(message, recommend_emergency, context, c, gemini, openai) ==
    compose_reply(message, recommend_emergency, context,
                  generate_via_llm(message, llm_context_arg(context, c), c, gemini, openai), c)

\* build_reply, for a request processed from start to end on its own
build_reply(message, c, faiss, gemini, openai) ==
    reply_given(message, contains_emergency_keywords(message),
                reply_context(message, c, faiss), c, gemini, openai)

\* ------------------------------------------------------------------ inputs

\* the bounds of the model: fragments per message, documents the index ranks for a
\* query (Spec), blocks per context (SpecFallback), requests in flight (SpecConc)
MaxMsgFrags == 1

MaxDocs == 1

MaxBlocks == 2

NumRequests == 2

RECURSIVE Flatten(_)
Flatten(ss) == IF ss = <<>> THEN <<>> ELSE ss[1] \o Flatten(Tail(ss))

\* the sequences of at most n elements of S
SeqsUpTo(S, n) == UNION {[1..m -> S] : m \in 0..n}

\* the messages made of 1..n of the fragments
MessagesOf(frags, n) == {Flatten(fs) : fs \in SeqsUpTo(frags, n) \ {<<>>}}

\* five flags: _genai_available, FULL_GEMINI, USE_CONTEXT, FAISS_FALLBACK (main.py:38-64)
\* and SHOW_EMERGENCY_NOTICE (main.py:79)
Configs ==
    [genai_available : BOOLEAN, FULL_GEMINI : BOOLEAN, USE_CONTEXT : BOOLEAN,
     FAISS_FALLBACK : BOOLEAN, SHOW_EMERGENCY_NOTICE : BOOLEAN]

FaissDown(kind) == [kind |-> kind, docs |-> <<>>]

FaissOk(docs) == [kind |-> "ok", docs |-> docs]

GeminiRaises == [kind |-> "raise", text |-> <<>>]

GeminiNone == [kind |-> "none", text |-> <<>>]

GeminiText(t) == [kind |-> "text", text |-> t]

HI_THERE == <<"H","i"," ","t","h","e","r","e","!">>

GeminiOutcomes ==
    { GeminiRaises, GeminiNone, GeminiText(<<" ","\n">>), GeminiText(HI_THERE),
      GeminiText(<<" ","T","a","k","e"," ","r","e","s","t",".","\n">>) }

OpenAIDown == [kind |-> "raise", text |-> <<"n","o"," ","k","e","y">>]

\* context blocks
BLOCK_FLU ==
    <<"O","v","e","r","v","i","e","w",":"," ","F","l","u"," ","i","s"," ","a"," ","v","i","r","u","s",".",
        "\n","C","o","m","m","o","n"," ","S","y","m","p","t","o","m","s",":"," ","F","e","v","e","r",",",
        " ","c","o","u","g","h","\n","G","e","n","e","r","a","l"," ","A","d","v","i","c","e"," ","R","e",
        "s","t"," ","a","n","d"," ","f","l","u","i","d","s","\n","P","r","e","v","e","n","t","i","o","n",
        " ","w","a","s","h"," ","h","a","n","d","s">>

BLOCK_PLAIN == <<"D","r","i","n","k"," ","w","a","t","e","r",".","\n">>

BLOCK_PREVENTION == <<"P","r","e","v","e","n","t","i","o","n"," ","T","i","p","s",":","\n","-"," ","w","a",
        "s","h"," ","h","a","n","d","s"," ","-","\n","-"," ","m","a","s","k","\n","W","h","e","n"," ","t",
        "o"," ","S","e","e","k"," ","h","e","l","p",":"," ","h","i","g","h"," ","f","e","v","e","r">>

BLOCK_EMPTY == <<"C","o","m","m","o","n"," ","S","y","m","p","t","o","m","s",":","G","e","n","e","r","a",
        "l"," ","A","d","v","i","c","e">>

BLOCK_TWICE == <<"C","o","m","m","o","n"," ","S","y","m","p","t","o","m","s",":"," ","a","-","b","\n","C",
        "o","m","m","o","n"," ","S","y","m","p","t","o","m","s",":"," ","c">>

MSG_HELLO == <<"h","e","l","l","o">>

MSG_CHEST_PAIN == <<"I"," ","h","a","v","e"," ","c","h","e","s","t"," ","p","a","i","n">>

MSG_FLU == <<"t","e","l","l"," ","m","e"," ","a","b","o","u","t"," ","f","l","u">>

PipelineFrags == { MSG_HELLO, MSG_CHEST_PAIN, MSG_FLU }

PipelineFaiss ==
    {FaissDown("dir_missing"), FaissDown("search_error")}
    \cup {FaissOk(d) : d \in SeqsUpTo({BLOCK_FLU, BLOCK_PLAIN}, MaxDocs)}

KeywordFrags ==
    { <<"I"," ","h","a","v","e"," ","c","h","e","s","t"," ","p","a","i","n"," ","n","o","w">>, <<"D","i",
        "f","f","i","c","u","l","t","y"," ","B","r","e","a","t","h","i","n","g">>, <<"T","R","O","U","B",
        "L","E"," ","B","R","E","A","T","H","I","N","G","!">>,
      <<"s","h","o","r","t","n","e","s","s"," ","o","f"," ","b","r","e","a","t","h">>, <<"S","u","i","c",
        "i","d","a","l">>, <<"s","u","i","c","i","d","e">>, <<"h","e"," ","i","s"," ","F","a","i","n","t",
        "i","n","g">>,
      <<"x","s","e","v","e","r","e"," ","b","l","e","e","d","i","n","g","x">>,
      <<"c","h","e","s","t">>, <<" ","p","a","i","n">>, <<"s","u","i","c","i","d">>, <<"I"," ","f","e","e",
        "l"," ","f","i","n","e">> }

KeywordGemini == { GeminiRaises, GeminiText(HI_THERE) }

MSG_SYMPTOMS_PREVENTION == <<"S","y","m","p","t","o","m","s"," ","a","n","d"," ","P","r","e","v","e","n",
        "t","i","o","n">>

CueFrags ==
    { <<"s","y","m","p","t","o","m","s","?">>, MSG_SYMPTOMS_PREVENTION, <<"s","e","l","f","-","c","a","r",
        "e">>, <<"p","r","e","v","e","n","t","i","o","n">>,
      <<"w","h","e","n"," ","t","o"," ","s","e","e","k"," ","m","e","d","i","c","a","l"," ","h","e","l",
        "p">>, <<"O","v","e","r","v","i","e","w">>, MSG_FLU, <<"d","e","t","a","i","l","s">>, MSG_HELLO }

FallbackBlocks == { BLOCK_FLU, BLOCK_PLAIN, BLOCK_PREVENTION, BLOCK_EMPTY, BLOCK_TWICE }

\* FAISS_FALLBACK set and no generation
FallbackConfig ==
    [genai_available |-> FALSE, FULL_GEMINI |-> TRUE, USE_CONTEXT |-> FALSE,
     FAISS_FALLBACK |-> TRUE, SHOW_EMERGENCY_NOTICE |-> TRUE]

ConcInputs ==
    { <<MSG_HELLO, FaissOk(<<BLOCK_PLAIN>>), GeminiText(HI_THERE)>>,
      <<MSG_CHEST_PAIN, FaissDown("dir_missing"), GeminiRaises>>,
      <<MSG_FLU, FaissOk(<<BLOCK_FLU>>), GeminiNone>>,
      <<MSG_SYMPTOMS_PREVENTION, FaissOk(<<BLOCK_PREVENTION, BLOCK_FLU>>), GeminiText(<<" ","\n">>)>> }

ConcConfigs ==
    { c \in Configs : c.SHOW_EMERGENCY_NOTICE /\ c.FULL_GEMINI /\ c.USE_CONTEXT = c.FAISS_FALLBACK }

\* ------------------------------------------------------------------ state machine

\* a /chat request that has reached build_reply (main.py:259-261)
Received(m, f, g) ==
    [pc |-> "received", message |-> m, faiss |-> f, gemini |-> g, openai |-> OpenAIDown,
     recommend_emergency |-> FALSE, context |-> <<>>, prompt |-> <<>>, llm_answer |-> <<>>,
     fallback |-> [ran |-> FALSE, rule |-> 0, block |-> 0], answer |-> <<>>,
     response |-> <<>>]

\* one request, every flag, each way the collaborators can behave
Init ==
    /\ cfg \in Configs
    /\ \E m \in MessagesOf(PipelineFrags, MaxMsgFrags), f \in PipelineFaiss,
          g \in GeminiOutcomes :
          req = <<Received(m, f, g)>>

\* one request, every flag, the messages that do and do not hold an emergency phrase
InitKeyword ==
    /\ cfg \in Configs
    /\ \E m \in MessagesOf(KeywordFrags, MaxMsgFrags), g \in KeywordGemini :
          req = <<Received(m, FaissDown("dir_missing"), g)>>

\* one request that reaches the extractive fallback whenever context is not empty
InitFallback ==
    /\ cfg = FallbackConfig
    /\ \E m \in MessagesOf(CueFrags, MaxMsgFrags), d \in SeqsUpTo(FallbackBlocks, MaxBlocks) :
          req = <<Received(m, FaissOk(d), GeminiNone)>>

\* NumRequests requests in flight at once
InitConc ==
    /\ cfg \in ConcConfigs
    /\ \E ins \in [1..NumRequests -> ConcInputs] :
          req = [r \in 1..NumRequests |-> Received(ins[r][1], ins[r][2], ins[r][3])]

\* main.py:170-173
Retrieve(r) ==
    /\ req[r].pc = "received"
    /\ req' = [req EXCEPT ![r].pc = "retrieved",
                          ![r].recommend_emergency = contains_emergency_keywords(req[r].message),
                          ![r].context = reply_context(req[r].message, cfg, req[r].faiss)]
    /\ UNCHANGED cfg

\* main.py:176 had llm_answer been a module-level name shared by the requests
Generate_shared(r) ==
    /\ req[r].pc = "retrieved"
    /\ req' = [s \in DOMAIN req |->
                [req[s] EXCEPT
                   !.pc = IF s = r THEN "generated" ELSE req[s].pc,
                   !.llm_answer = generate_via_llm(req[r].message,
                                                   llm_context_arg(req[r].context, cfg), cfg,
                                                   req[r].gemini, req[r].openai)]]
    /\ UNCHANGED cfg

\* main.py:176.  prompt is final_prompt when the Gemini branch builds one
Generate(r) ==
    /\ req[r].pc = "retrieved"
    /\ req' = [req EXCEPT
            ![r].pc = "generated",
            ![r].prompt = IF cfg.genai_available /\ cfg.FULL_GEMINI
                          THEN <<final_prompt(req[r].message,
                                              llm_context_arg(req[r].context, cfg), cfg)>>
                          ELSE <<>>,
            ![r].llm_answer = generate_via_llm(req[r].message,
                                               llm_context_arg(req[r].context, cfg), cfg,
                                               req[r].gemini, req[r].openai)]
    /\ UNCHANGED cfg

\* main.py:179-230.  answer is llm_answer as main.py:226 reads it
Compose(r) ==
    /\ req[r].pc = "generated"
    /\ req' = [req EXCEPT
            ![r].pc = "done",
            ![r].fallback = fallback_trace(req[r].message, req[r].context,
                                           req[r].llm_answer, cfg),
            ![r].answer = or_default(after_fallback(req[r].message, req[r].context,
                                                    req[r].llm_answer, cfg)),
            ![r].response = <<compose_reply(req[r].message, req[r].recommend_emergency,
                                            req[r].context, req[r].llm_answer, cfg)>>]
    /\ UNCHANGED cfg

Next == \E r \in DOMAIN req : Retrieve(r) \/ Generate(r) \/ Compose(r)

Spec == Init /\ [][Next]_vars

SpecKeyword == InitKeyword /\ [][Next]_vars

SpecFallback == InitFallback /\ [][Next]_vars

SpecConc == InitConc /\ [][Next]_vars

\* ------------------------------------------------------------------ properties

Done(r) == req[r].pc = "done"

Reply(r) == req[r].response[1].reply

EmergencyRecommended(r) == req[r].response[1].emergency_recommended

\* the notice follows when an emergency is detected and the notice flag is set
NoticeIfDue(text, r) ==
    IF EmergencyRecommended(r) /\ cfg.SHOW_EMERGENCY_NOTICE
    THEN text \o <<"\n", "\n">> \o EMERGENCY_NOTICE
    ELSE text

\* the Gemini call gives no text: it raises, gives nothing, or gives white space only
NoText(g) == g.kind # "text" \/ \A i \in 1..Len(g.text) : g.text[i] \in WHITESPACE

\* generation yields nothing for request r
GenerationFails(r) == ~(cfg.genai_available /\ cfg.FULL_GEMINI) \/ NoText(req[r].gemini)

\* C1: for every message, every combination of the five flags and every behaviour
\* of the Retriever and of the Generator, the reply of build_reply is a non-empty
\* string.
C1_ReplyNonEmpty ==
    \A r \in DOMAIN req : Done(r) => req[r].response # <<>> /\ Len(Reply(r)) > 0

\* both collaborators fail, no emergency: the reply is the default apology
C1_Witness ==
    \E r \in DOMAIN req :
        /\ Done(r)
        /\ cfg.genai_available /\ cfg.FULL_GEMINI /\ cfg.USE_CONTEXT /\ ~cfg.FAISS_FALLBACK
        /\ req[r].gemini.kind = "raise"
        /\ req[r].faiss.kind = "search_error"
        /\ ~EmergencyRecommended(r)
        /\ Reply(r) = DEFAULT_APOLOGY

\* the eight emergency phrases of the specification (section 4.1)
SPEC_EMERGENCY_PHRASES ==
    { <<"c","h","e","s","t"," ","p","a","i","n">>, <<"d","i","f","f","i","c","u","l","t","y"," ","b","r",
        "e","a","t","h","i","n","g">>, <<"t","r","o","u","b","l","e"," ","b","r","e","a","t","h","i","n",
        "g">>,
      <<"s","h","o","r","t","n","e","s","s"," ","o","f"," ","b","r","e","a","t","h">>, <<"s","u","i","c",
        "i","d","a","l">>, <<"s","u","i","c","i","d","e">>, <<"f","a","i","n","t","i","n","g">>,
      <<"s","e","v","e","r","e"," ","b","l","e","e","d","i","n","g">> }

\* character c of a message is letter l of a phrase, whatever the case of c
SameLetter(c, l) ==
    c = l \/ \E k \in 1..Len(UPPERCASE) : UPPERCASE[k] = c /\ LOWERCASE[k] = l

\* message m holds phrase p at position i
HoldsPhraseAt(m, p, i) ==
    /\ i + Len(p) - 1 <= Len(m)
    /\ \A j \in 1..Len(p) : SameLetter(m[i + j - 1], p[j])

HoldsEmergencyPhrase(m) ==
    \E p \in SPEC_EMERGENCY_PHRASES : \E i \in 1..Len(m) : HoldsPhraseAt(m, p, i)

\* C2: emergency_recommended is true if and only if the lower-cased message holds
\* one of the eight emergency phrases at some position, whatever the flags, the
\* context and the generated answer.
C2_EmergencyIffPhrase ==
    \A r \in DOMAIN req :
        Done(r) => (EmergencyRecommended(r) <=> HoldsEmergencyPhrase(req[r].message))

\* a phrase that the message holds in upper case only is detected
C2_Witness ==
    \E r \in DOMAIN req :
        /\ Done(r)
        /\ EmergencyRecommended(r)
        /\ \A n \in 1..Len(EMERGENCY_KEYWORDS) : ~str_in(EMERGENCY_KEYWORDS[n], req[r].message)

\* C3: when an emergency phrase is detected and the notice flag is set, the reply
\* is the answer of whichever tier produced it, then two newlines, then the fixed
\* emergency notice.
C3_NoticeAfterTwoNewlines ==
    \A r \in DOMAIN req :
        Done(r) /\ EmergencyRecommended(r) /\ cfg.SHOW_EMERGENCY_NOTICE
        => /\ req[r].answer # <<>>
           /\ Reply(r) = req[r].answer \o <<"\n", "\n">> \o EMERGENCY_NOTICE

\* the extractive fallback answered a message with an emergency phrase
C3_Witness ==
    \E r \in DOMAIN req :
        /\ Done(r) /\ EmergencyRecommended(r) /\ cfg.SHOW_EMERGENCY_NOTICE
        /\ req[r].fallback.ran
        /\ Len(Reply(r)) > Len(EMERGENCY_NOTICE) + 2

\* C4: when retrieval fails (index missing, not loaded, or the search raises) the
\* context build_reply uses is the empty sequence.
C4_FailedRetrievalGivesNoContext ==
    \A r \in DOMAIN req :
        req[r].pc # "received" /\ req[r].faiss.kind # "ok" => req[r].context = <<>>

C6_GenerationFirst ==
    \A r \in DOMAIN req :
        Done(r)
        => /\ ~GenerationFails(r)
              => /\ ~req[r].fallback.ran
                 /\ req[r].answer = str_strip(req[r].gemini.text)
                 /\ Reply(r) = NoticeIfDue(str_strip(req[r].gemini.text), r)
           /\ req[r].fallback.ran
              => req[r].llm_answer = <<>> /\ cfg.FAISS_FALLBACK /\ req[r].context # <<>>

\* "hello", generation gives "Hi there!", fallback enabled, context at hand (scenario C)
C6_Witness ==
    \E r \in DOMAIN req :
        /\ Done(r)
        /\ req[r].message = MSG_HELLO
        /\ req[r].gemini = GeminiText(HI_THERE)
        /\ cfg.FAISS_FALLBACK /\ req[r].context # <<>>
        /\ Reply(r) = HI_THERE

\* no branch of the loop applies to any block of the context
NoRuleApplies(lower_msg, context) ==
    \A i \in 1..Len(context), n \in 1..Len(RULES) :
        ~(any_in(RULES[n].cues, lower_msg) /\ str_in(RULES[n].start, context[i]))

\* the three sections of a block, each with the text it appears as in the summary
SummarySections(block) ==
    << [text |-> composite_section(block, <<"O","v","e","r","v","i","e","w",":">>, <<"C","o","m","m","o",
        "n"," ","S","y","m","p","t","o","m","s">>),
        shown |-> <<"*","*","O","v","e","r","v","i","e","w",":","*","*","\n">>
                  \o composite_section(block, <<"O","v","e","r","v","i","e","w",":">>, <<"C","o","m","m",
        "o","n"," ","S","y","m","p","t","o","m","s">>)],
       [text |-> composite_section(block, <<"C","o","m","m","o","n"," ","S","y","m","p","t","o","m","s",
        ":">>, <<"G","e","n","e","r","a","l"," ","A","d","v","i","c","e">>),
        shown |-> format_as_markdown(<<"C","o","m","m","o","n"," ","S","y","m","p","t","o","m","s">>,
                     composite_section(block, <<"C","o","m","m","o","n"," ","S","y","m","p","t","o","m","s",
        ":">>, <<"G","e","n","e","r","a","l"," ","A","d","v","i","c","e">>))],
       [text |-> composite_section(block, <<"G","e","n","e","r","a","l"," ","A","d","v","i","c",
        "e">>, <<"P","r","e","v","e","n","t","i","o","n">>),
        shown |-> format_as_markdown(<<"G","e","n","e","r","a","l"," ","A","d","v","i","c","e"," ","/"," ",
        "S","e","l","f","-","c","a","r","e">>,
                     composite_section(block, <<"G","e","n","e","r","a","l"," ","A","d","v","i","c",
        "e">>, <<"P","r","e","v","e","n","t","i","o","n">>))] >>

NonEmptySection(sec) == sec.text # <<>>

RECURSIVE JoinShown(_)
\* the sections as shown, a blank line between one and the next
JoinShown(secs) ==
    IF secs = <<>> THEN <<>>
    ELSE IF Len(secs) = 1 THEN secs[1].shown
    ELSE secs[1].shown \o <<"\n", "\n">> \o JoinShown(Tail(secs))

\* C7: when the fallback runs, no rule 1-5 applies to any block and the message
\* holds "tell me", "about", "what is" or "details", the answer is the summary of
\* the first block only: its non-empty Overview, Common Symptoms and General
\* Advice sections in that order, each under its title, joined by blank lines;
\* when all three are empty the answer is the first block behind the prefix.
C7_SummaryOfFirstBlock ==
    \A r \in DOMAIN req :
        /\ Done(r) /\ req[r].fallback.ran
        /\ NoRuleApplies(str_lower(req[r].message), req[r].context)
        /\ any_in(GENERIC_CUES, str_lower(req[r].message))
        => req[r].answer
             = IF SelectSeq(SummarySections(req[r].context[1]), NonEmptySection) # <<>>
               THEN JoinShown(SelectSeq(SummarySections(req[r].context[1]), NonEmptySection))
               ELSE FOUND_PREFIX \o req[r].context[1]

SCENARIO_B_REPLY ==
    <<"*","*","O","v","e","r","v","i","e","w",":","*","*","\n","F","l","u"," ","i","s"," ","a"," ","v","i",
        "r","u","s",".","\n","\n","*","*","C","o","m","m","o","n"," ","S","y","m","p","t","o","m","s",":",
        "*","*","\n","-"," ","F","e","v","e","r",","," ","c","o","u","g","h","\n","\n","*","*","G","e","n",
        "e","r","a","l"," ","A","d","v","i","c","e"," ","/"," ","S","e","l","f","-","c","a","r","e",":","*",
        "*","\n","-"," ","R","e","s","t"," ","a","n","d"," ","f","l","u","i","d","s">>

\* "tell me about flu" over the flu block, a second block behind it (scenario B)
C7_Witness ==
    \E r \in DOMAIN req :
        /\ Done(r) /\ req[r].fallback.ran
        /\ req[r].message = MSG_FLU
        /\ req[r].context = <<BLOCK_FLU, BLOCK_PREVENTION>>
        /\ Reply(r) = SCENARIO_B_REPLY

\* C8: in the extractive fallback a rule whose extracted section is empty yields no
\* answer: an empty section under its title is never the answer.
C8_EmptySectionNeverAnswers ==
    \A r \in DOMAIN req :
        Done(r) /\ req[r].fallback.ran
        => \A n \in 1..Len(RULES) : req[r].answer # <<"*","*">> \o RULES[n].title \o <<":","*","*","\n">>

\* a step changes the record of one request only
OneRequestAtATime ==
    \A r, s \in DOMAIN req : r # s /\ req'[r] # req[r] => req'[s] = req[s]

\* C9: requests processed concurrently in any interleaving write no state shared
\* between them (the flags stay as they are, a step of one request leaves the
\* others' records alone) and each response is the one the request gets when
\* processed alone with the same message and the same collaborator results.
C9_RequestsIndependent ==
    /\ [](\A r \in DOMAIN req :
            Done(r) => req[r].response
                         = <<build_reply(req[r].message, cfg, req[r].faiss, req[r].gemini,
                                         req[r].openai)>>)
    /\ [][cfg' = cfg /\ OneRequestAtATime]_vars

\* one request is answered while another, with another message, is between its
\* retrieval and its generation
C9_Witness ==
    \E r, s \in DOMAIN req :
        /\ Done(r) /\ req[s].pc = "generated"
        /\ req[r].message # req[s].message
        /\ req[r].llm_answer # req[s].llm_answer

\* the (block, rule) pairs whose cue is in the message and whose marker is in the block
Applicable(lower_msg, context) ==
    {p \in (1..Len(context)) \X (1..Len(RULES)) :
        any_in(RULES[p[2]].cues, lower_msg) /\ str_in(RULES[p[2]].start, context[p[1]])}

\* C10 as stated: the rule that answers is the first rule, in the fixed order,
\* whose cue is in the message and whose marker is in any block of the context.
C10_FirstRuleOverAllBlocks ==
    \A r \in DOMAIN req :
        Done(r) /\ req[r].fallback.ran /\ req[r].fallback.rule \in 1..Len(RULES)
        => \A p \in Applicable(str_lower(req[r].message), req[r].context) :
              req[r].fallback.rule <= p[2]

\* C10 as amended: the blocks are scanned in order and the rules are tried in the
\* fixed order on each block: the answer comes from the earliest block to which
\* some rule applies and from the first rule that applies to that block.
C10_FirstRuleOfFirstBlock ==
    \A r \in DOMAIN req :
        Done(r) /\ req[r].fallback.ran
        => IF Applicable(str_lower(req[r].message), req[r].context) = {}
           THEN req[r].fallback.rule \notin 1..Len(RULES)
           ELSE /\ req[r].fallback.rule \in 1..Len(RULES)
                /\ \A p \in Applicable(str_lower(req[r].message), req[r].context) :
                      \/ req[r].fallback.block < p[1]
                      \/ req[r].fallback.block = p[1] /\ req[r].fallback.rule <= p[2]
                /\ <<req[r].fallback.block, req[r].fallback.rule>>
                      \in Applicable(str_lower(req[r].message), req[r].context)

\* the prevention rule answers from the first block while the symptom rule, which
\* comes before it, applies to a later block
C10_Witness ==
    \E r \in DOMAIN req :
        /\ Done(r) /\ req[r].fallback.ran
        /\ req[r].fallback.rule = 3 /\ req[r].fallback.block = 1
        /\ <<2, 1>> \in Applicable(str_lower(req[r].message), req[r].context)

\* ------------------------------------------------------------------ marker extraction

\* the text of block just after the first occurrence of start (start is in block)
AfterFirst(block, start) ==
    SubSeq(block, str_find(block, start) + Len(start), Len(block))

\* the text of s up to the first occurrence of end, all of s when end is not in it
UpToFirst(s, end) ==
    IF str_find(s, end) = 0 THEN s ELSE SubSeq(s, 1, str_find(s, end) - 1)

\* the section as stated: from just after the first start marker up to the first
\* end marker after it, or up to the end of the block; white space trimmed as
\* the branches of build_reply do
StatedSection(block, start, end) ==
    str_strip(UpToFirst(AfterFirst(block, start), end))

\* the sections of the summary, as stated
StatedSection_or_empty(block, start, end) ==
    IF str_in(start, block) THEN StatedSection(block, start, end) ELSE <<>>

\* the summary built from the sections as stated
StatedSummary(block) ==
    parts_of(StatedSection_or_empty(block, <<"O","v","e","r","v","i","e","w",":">>, <<"C","o","m","m","o",
        "n"," ","S","y","m","p","t","o","m","s">>),
             StatedSection_or_empty(block, <<"C","o","m","m","o","n"," ","S","y","m","p","t","o","m","s",
        ":">>, <<"G","e","n","e","r","a","l"," ","A","d","v","i","c","e">>),
             StatedSection_or_empty(block, <<"G","e","n","e","r","a","l"," ","A","d","v","i","c",
        "e">>, <<"P","r","e","v","e","n","t","i","o","n">>))

\* C11 as stated: whenever a rule answers from a block, the section it shows is
\* the text from just after the first occurrence of the rule's start marker up to
\* the first occurrence of its end marker after that, or up to the end of the
\* block when no end marker follows, a second occurrence of the start marker
\* inside the span leaving it whole; likewise for the sections of the summary.
C11_SectionFromFirstStartToFirstEnd ==
    \A r \in DOMAIN req :
        Done(r) /\ req[r].fallback.ran
        => /\ req[r].fallback.rule \in 1..Len(RULES)
              => req[r].answer
                   = section_answer(RULES[req[r].fallback.rule],
                        StatedSection(req[r].context[req[r].fallback.block],
                                      RULES[req[r].fallback.rule].start,
                                      RULES[req[r].fallback.rule].end))
           /\ req[r].fallback.rule = 6
              => req[r].answer = str_join(<<"\n","\n">>, StatedSummary(req[r].context[1]))

\* the start marker occurs once in the block the answer was taken from
StartOnce(block, start) ==
    ~ str_in(start, AfterFirst(block, start))

\* the part of C11 that holds: extraction never raises, and the section is the one
\* stated whenever the start marker occurs once in the block
C11_SectionWhenStartOnce ==
    \A r \in DOMAIN req :
        Done(r) /\ req[r].fallback.ran /\ req[r].fallback.rule \in 1..Len(RULES)
        /\ StartOnce(req[r].context[req[r].fallback.block], RULES[req[r].fallback.rule].start)
        => req[r].answer
             = section_answer(RULES[req[r].fallback.rule],
                  StatedSection(req[r].context[req[r].fallback.block],
                                RULES[req[r].fallback.rule].start,
                                RULES[req[r].fallback.rule].end))

\* ------------------------------------------------------------------ bullet formatting

\* t without a leading "- " prefix
WithoutDashPrefix(t) ==
    IF Len(t) >= 2 /\ StartsAt(t, <<"-"," ">>, 1) THEN str_strip(SubSeq(t, 3, Len(t))) ELSE t

\* the content of a bullet as stated: the line with the surrounding white space
\* and a leading "- " prefix removed, every other hyphen kept
StatedBullet(line) == WithoutDashPrefix(str_strip(line))

RECURSIVE StatedLines(_)
\* the bullets' contents as stated, one per line that is not blank
StatedLines(raw) ==
    IF raw = <<>> THEN <<>>
    ELSE (IF str_strip(raw[1]) # <<>> THEN <<StatedBullet(raw[1])>> ELSE <<>>)
         \o StatedLines(Tail(raw))

\* the formatted section as stated: the bolded title, then the bullets, or the
\* raw text when no line is left
StatedMarkdown(section_title, text_block) ==
    IF StatedLines(str_split(text_block, <<"\n">>)) # <<>>
    THEN titled(section_title,
                markdown_bullets(StatedLines(str_split(text_block, <<"\n">>))))
    ELSE titled(section_title, text_block)

\* the section a bulleted rule extracted for the answer of request r
SectionShown(r) ==
    section_between(req[r].context[req[r].fallback.block],
                    RULES[req[r].fallback.rule].start, RULES[req[r].fallback.rule].end)

\* C12 as stated: the answer of a bulleted rule is the bolded title followed by
\* one bullet per non-blank line of the extracted text, each bullet holding the
\* line with only a leading "- " prefix and the surrounding white space removed,
\* trailing hyphens kept; with no such line it is the title and the raw text.
C12_BulletsKeepOtherHyphens ==
    \A r \in DOMAIN req :
        Done(r) /\ req[r].fallback.ran /\ req[r].fallback.rule \in 1..Len(RULES)
        /\ RULES[req[r].fallback.rule].bulleted
        => req[r].answer = StatedMarkdown(RULES[req[r].fallback.rule].title, SectionShown(r))

====
